---- MODULE Spec2Model ----
(***************************************************************************)
(* Offline mutation queue of xortal-v1: the OfflineQueue class             *)
(* (lib/offlineQueue), the retry helper withRetry (lib/retryHandler) and   *)
(* the task mutations of the zustand store that replay queued operations.  *)
(*                                                                         *)
(* JavaScript is single threaded: every action below is one run-to-        *)
(* completion section of a handler, from its entry or from the resumption  *)
(* of an await up to the next await or the return.                         *)
(***************************************************************************)
EXTENDS Integers, Sequences, FiniteSets, TLC

\* ---------------------------------------------------------------- bounds
\* Number of operations the callers of addOperation queue in one
\* behaviour.
MaxOps == 2

\* Number of operations the replay re-enqueues, on top of them.
MaxRequeued == 1

\* Length of the live task list beyond which the application creates no
\* further task while online.
MaxTasks == 1

\* Largest maxRetries a caller of withRetry passes.
MaxRetriesOption == 3

\* ------------------------------------------------------------- constants
DEFAULT_RETRY_COUNT == 3
DEFAULT_RETRY_DELAY == 1000
MAX_RETRY_DELAY == 10000
\* Math.random() * 200: the jitter lies in [0, 200).
JitterRange == 200
DeadLetterThreshold == 3

\* ---------------------------------------------------------------- inputs
\* QueuedOperation.type and .entity of the operations that are enqueued:
\* the three task mutations, which the store routes, and one operation on
\* a note, which stands for the four entities (project, note, resource,
\* reminder) the store's switch has no case for, whatever their type.
Kinds == {<<"create", "task">>, <<"update", "task">>, <<"delete", "task">>,
          <<"create", "note">>}
\* QueuedOperation.data: plain JSON values (the call sites pass object
\* literals of strings and booleans), named by the task they concern.
Payloads == {"X"}

\* The ids crypto.randomUUID() hands out in one behaviour.
Ids == 1..(MaxOps + MaxRequeued)

VARIABLES
    online,          \* navigator.onLine
    storage,         \* localStorage value under STORAGE_KEY
    storageFull,     \* the origin's storage quota is used up
    heap,            \* the QueuedOperation objects, by id (JS references)
    queue,           \* this.queue: sequence of references into heap
    queueIsArray,    \* FALSE when JSON.parse left a non-array in this.queue
    isProcessing,    \* this.isProcessing
    pc,              \* processQueue: "idle" or "awaiting" (suspended at the await)
    operations,      \* processQueue: the snapshot [...this.queue]
    idx,             \* processQueue: position of the for-of loop in operations
    nextId,          \* next value of crypto.randomUUID() / Date.now()
    dispatch,        \* per operation: state of its backend mutation
    tasks,           \* store.tasks (live list)
    lastError,       \* store.lastError
    dispatchLog,     \* history: ids handed to processOperation in the current pass
    drained,         \* history: ids the drain removed from this.queue
    reported,        \* history: ids whose failure was written to lastError
    appended,        \* history: operations of the addOperation calls, while onlyAppends
    onlyAppends,     \* history: nothing but returning addOperation calls since start
    call             \* the withRetry activation of a call made outside the replay

vars == <<online, storage, storageFull, heap, queue, queueIsArray,
          isProcessing, pc, operations, idx, nextId, dispatch, tasks, lastError,
          dispatchLog, drained, reported, appended, onlyAppends, call>>

\* The variables of a pass of processQueue.
passVars == <<isProcessing, pc, operations, idx, dispatch, dispatchLog>>

\* ------------------------------------------------------ QueuedOperation
NoOp == [id |-> 0, type |-> "none", entity |-> "none", data |-> "none",
         timestamp |-> 0, retryCount |-> 0]

\* Variant of the literal: the id is a constant, not a fresh UUID.
NewOperationFixedId(type, entity, data, uuid, now) ==
    [id |-> 1, type |-> type, entity |-> entity, data |-> data,
     timestamp |-> now, retryCount |-> 0]

\* Variant of the literal: the count starts at 1.
NewOperationCounted(type, entity, data, uuid, now) ==
    [id |-> uuid, type |-> type, entity |-> entity, data |-> data,
     timestamp |-> now, retryCount |-> 1]

\* The object literal built by addOperation.
NewOperation(type, entity, data, uuid, now) ==
    [id |-> uuid, type |-> type, entity |-> entity, data |-> data,
     timestamp |-> now, retryCount |-> 0]

\* Variant of push: the operation is put in front (unshift).
PushedFront(q, ref) == <<ref>> \o q

\* this.queue.push(queuedOp)
Pushed(q, ref) == Append(q, ref)

\* The objects a sequence of references denotes.
Deref(h, q) == [i \in 1..Len(q) |-> h[q[i]]]

\* ----------------------------------------------------------- persistence
Absent == [kind |-> "absent", items |-> <<>>]
\* A stored string that JSON.parse rejects.
Garbage == [kind |-> "garbage", items |-> <<>>]
\* A stored string that parses to a value that is not an array ("{}").
NonArray == [kind |-> "object", items |-> <<>>]

\* JSON.stringify of one operation: every own property, by name.
StringifyOp(o) ==
    <<o.id, o.type, o.entity, o.data, o.timestamp, o.retryCount>>

\* JSON.parse of one serialised operation.
ParseOp(s) ==
    [id |-> s[1], type |-> s[2], entity |-> s[3], data |-> s[4],
     timestamp |-> s[5], retryCount |-> s[6]]

\* JSON.stringify(this.queue)
Stringify(h, q) ==
    [kind |-> "array", items |-> [i \in 1..Len(q) |-> StringifyOp(h[q[i]])]]

\* Variant of saveQueue: the write is left out.
SaveQueueNotWritten(h, q) == storage

\* saveQueue: the value setItem leaves under the key.
SaveQueue(h, q) == Stringify(h, q)

\* loadQueue: the objects this.queue holds after construction.
LoadQueue(stored) ==
    IF stored.kind = "array"
    THEN [i \in 1..Len(stored.items) |-> ParseOp(stored.items[i])]
    ELSE <<>>

\* loadQueue: whether this.queue is an array after construction.
LoadIsArray(stored) == stored.kind # "object"

\* Variant of the removal: the head of the queue is taken off (shift).
FilterOutShift(h, q, id) == IF q = <<>> THEN <<>> ELSE Tail(q)

\* Variant of the removal: the pass's snapshot is filtered and written back.
FilterOutOfSnapshot(h, q, id) ==
    SelectSeq(operations, LAMBDA r : h[r].id # id)

\* this.queue.filter(op => op.id !== operation.id)
RECURSIVE FilterOut(_, _, _)
FilterOut(h, q, id) ==
    IF q = <<>> THEN <<>>
    ELSE IF h[Head(q)].id # id
         THEN <<Head(q)>> \o FilterOut(h, Tail(q), id)
         ELSE FilterOut(h, Tail(q), id)

QueueIds == {queue[i] : i \in 1..Len(queue)}

\* ------------------------------------------------------------ withRetry
\* RetryOptions as callers pass them, every field resolved (?? default).
InitialDelays == {100, DEFAULT_RETRY_DELAY}
MaxDelays == {1500, MAX_RETRY_DELAY}
RetryOptions ==
    [maxRetries : 0..MaxRetriesOption, initialDelay : InitialDelays,
     maxDelay : MaxDelays]

\* options = {}: what the store's mutations pass.
DefaultOptions ==
    [maxRetries |-> DEFAULT_RETRY_COUNT, initialDelay |-> DEFAULT_RETRY_DELAY,
     maxDelay |-> MAX_RETRY_DELAY]

\* Values of Math.random() * 200, in whole milliseconds.
Jitters == {0, 100, JitterRange - 1}

Min(a, b) == IF a <= b THEN a ELSE b

\* Variant of the test: the attempt before the last one gives up.
LastAttemptOneEarly(attempt, maxRetries) == attempt + 1 >= maxRetries

\* if (attempt === maxRetries) throw lastError
LastAttempt(attempt, maxRetries) == attempt = maxRetries

\* Variant of the loop: the delay stays what it was.
NotDoubled(delay) == delay

\* delay *= 2
Doubled(delay) == delay * 2

\* Variant of the timeout: the cap is left out.
BackoffUncapped(delay, jitter, maxDelay) == delay + jitter

\* Math.min(delay + jitter, maxDelay)
Backoff(delay, jitter, maxDelay) == Min(delay + jitter, maxDelay)

\* What operation() rejects with: Error instances (told apart by their
\* message), a string, and a plain object such as the error field of a
\* backend response.
ThrownValues ==
    {[kind |-> "Error", value |-> "a"], [kind |-> "Error", value |-> "b"],
     [kind |-> "string", value |-> "a"], [kind |-> "object", value |-> "a"]}

\* `let lastError: Error` before its first assignment.
NoError == [kind |-> "undefined", value |-> ""]

\* String(error)
StringOf(e) == IF e.kind = "object" THEN "[object Object]" ELSE e.value

\* error instanceof Error ? error : new Error(String(error))
Caught(e) ==
    IF e.kind = "Error" THEN e ELSE [kind |-> "Error", value |-> StringOf(e)]

\* No withRetry call is active.
NoCall ==
    [status |-> "none", type |-> "none", data |-> "none", maxRetries |-> 0,
     initialDelay |-> 0, maxDelay |-> 0, attempt |-> 0, delay |-> 0,
     invocations |-> 0, waits |-> <<>>, lastError |-> NoError,
     thrown |-> NoError]

\* withRetry up to its first await: options resolved, delay = initialDelay,
\* attempt = 0 and operation() invoked.  type and data name the store
\* mutation that made the call ("none": some other caller); invocations,
\* waits and thrown are history: how often operation() was invoked, which
\* timeouts were set and what the latest invocation rejected with.
Invoked(type, data, o) ==
    [status |-> "invoked", type |-> type, data |-> data,
     maxRetries |-> o.maxRetries, initialDelay |-> o.initialDelay,
     maxDelay |-> o.maxDelay, attempt |-> 0, delay |-> o.initialDelay,
     invocations |-> 1, waits |-> <<>>, lastError |-> NoError,
     thrown |-> NoError]

\* ------------------------------------------------------------- dispatch
NotDispatched == [status |-> "none", attempt |-> 0, delay |-> 0]

\* The 'process-offline-operation' listener that hands the event's detail
\* to the store's processOfflineOperation ("Implementation will be handled
\* by the store").  Its registration is not part of the files modelled
\* here; it is taken to be in place.
ListenerRegistered == TRUE

\* processOperation -> processOfflineOperation, up to its first await:
\* which way the store takes for this operation.
Route(op, on) ==
    IF ~ListenerRegistered THEN "ignored"
    ELSE IF op.entity # "task" THEN "ignored"
    ELSE IF on THEN "inflight"
    ELSE "requeued"

\* State of the backend mutation right after processOperation returned:
\* on the way to the backend, withRetry has made its first invocation.
Started(op, on) ==
    [status |-> Route(op, on), attempt |-> 0,
     delay |-> IF Route(op, on) = "inflight" THEN DefaultOptions.initialDelay
               ELSE 0]

\* The live-list update of createTask / updateTask / deleteTask on success.
RECURSIVE MarkDone(_, _)
MarkDone(ts, name) ==
    IF ts = <<>> THEN <<>>
    ELSE <<IF Head(ts).name = name THEN [name |-> name, done |-> TRUE]
           ELSE Head(ts)>> \o MarkDone(Tail(ts), name)

RECURSIVE RemoveTask(_, _)
RemoveTask(ts, name) ==
    IF ts = <<>> THEN <<>>
    ELSE IF Head(ts).name = name THEN RemoveTask(Tail(ts), name)
         ELSE <<Head(ts)>> \o RemoveTask(Tail(ts), name)

\* Variant of createTask: the created record is not put into the list.
ApplyToTasksWithoutInsert(ts, op) ==
    CASE op.type = "update" -> MarkDone(ts, op.data)
      [] op.type = "delete" -> RemoveTask(ts, op.data)
      [] OTHER -> ts

\* What a mutation that succeeded does to the live list.
ApplyToTasks(ts, op) ==
    CASE op.type = "create" -> <<[name |-> op.data, done |-> FALSE]>> \o ts
      [] op.type = "update" -> MarkDone(ts, op.data)
      [] op.type = "delete" -> RemoveTask(ts, op.data)
      [] OTHER -> ts


\* ----------------------------------------------------------------- Init
\* The state after the module singleton is constructed over whatever the
\* browser holds under the key: nothing, an unparseable string, or a
\* string that parses to something that is not an array.
Init ==
    /\ online \in BOOLEAN
    /\ storage \in {Absent, Garbage, NonArray}
    /\ heap = [i \in Ids |-> NoOp]
    /\ queue = <<>>
    /\ queueIsArray = LoadIsArray(storage)
    /\ isProcessing = FALSE
    /\ pc = "idle"
    /\ operations = <<>>
    /\ idx = 0
    /\ nextId = 1
    /\ dispatch = [i \in Ids |-> NotDispatched]
    /\ tasks = <<>>
    /\ lastError = "none"
    /\ storageFull = FALSE
    /\ dispatchLog = <<>>
    /\ drained = {}
    /\ reported = {}
    /\ appended = <<>>
    /\ onlyAppends = (storage # NonArray)
    /\ call = NoCall

\* ------------------------------------------------------- processQueue
\* Variant of the early return: the in-progress flag is not looked at.
ProcessQueueGuardNoFlag(q, on) == ~on \/ Len(q) = 0

\* The condition of the early return; on is navigator.onLine.
ProcessQueueGuard(q, on) == isProcessing \/ ~on \/ Len(q) = 0

\* What an invocation of processQueue does up to its first await, on a
\* queue q: "noop" (early return), "threw" (the spread of a non-array) or
\* "started" (flag set, snapshot taken, first operation dispatched).
ProcessQueueOutcome(q, on) ==
    IF queueIsArray
    THEN IF ProcessQueueGuard(q, on) THEN "noop" ELSE "started"
    ELSE IF isProcessing \/ ~on THEN "noop" ELSE "threw"

\* The synchronous part of processQueue, on the queue q and heap h.
ProcessQueueEntry(h, q, on) ==
    IF ProcessQueueOutcome(q, on) = "started"
    THEN /\ isProcessing' = TRUE
         /\ operations' = q
         /\ idx' = 1
         /\ pc' = "awaiting"
         /\ dispatch' = [dispatch EXCEPT ![q[1]] = Started(h[q[1]], on)]
         /\ dispatchLog' = <<q[1]>>
    ELSE UNCHANGED <<isProcessing, operations, idx, pc, dispatch, dispatchLog>>

\* An explicit call of the public method.
ProcessQueue ==
    /\ UNCHANGED call
    /\ ProcessQueueEntry(heap, queue, online)
    /\ UNCHANGED <<online, storage, storageFull, heap, queue, queueIsArray,
                   nextId, tasks, lastError, drained, reported, appended,
                   onlyAppends>>

\* Variant of the constructor: no listener is registered, the event goes
\* unheard.
OnlineEventUnheard ==
    /\ ~online
    /\ online' = TRUE
    /\ UNCHANGED <<storage, storageFull, heap, queue, queueIsArray,
                   isProcessing, pc, operations, idx, nextId, dispatch,
                   tasks, lastError, dispatchLog, drained, reported,
                   appended, onlyAppends, call>>

\* window 'online' event: the browser is back online and the listener of
\* the constructor calls processQueue.
OnlineEvent ==
    /\ UNCHANGED call
    /\ ~online
    /\ online' = TRUE
    /\ ProcessQueueEntry(heap, queue, TRUE)
    /\ UNCHANGED <<storage, storageFull, heap, queue, queueIsArray, nextId, tasks, lastError,
                   drained, reported, appended, onlyAppends>>

\* The browser loses connectivity; nothing of the queue listens to it.
GoOffline ==
    /\ UNCHANGED call
    /\ online
    /\ online' = FALSE
    /\ UNCHANGED <<storage, storageFull, heap, queue, queueIsArray, isProcessing, pc,
                   operations, idx, nextId, dispatch, tasks, lastError,
                   dispatchLog, drained, reported, appended, onlyAppends>>

\* ------------------------------------------------------- addOperation
\* localStorage.setItem throws QuotaExceededError when the origin's quota
\* is used up.
SetItemThrows == storageFull

\* push on a non-array throws before anything is written; otherwise the
\* operation is pushed, saveQueue runs (and may throw) and, when online,
\* processQueue is called without being awaited.
AddOperation(type, entity, data) ==
    /\ UNCHANGED call
    /\ nextId <= MaxOps
    /\ IF ~queueIsArray
       THEN /\ onlyAppends' = FALSE
            /\ appended' = <<>>
            /\ UNCHANGED <<storage, heap, queue, nextId, isProcessing,
                           operations, idx, pc, dispatch, dispatchLog>>
       ELSE LET op == NewOperation(type, entity, data, nextId, nextId)
                h1 == [heap EXCEPT ![nextId] = op]
                q1 == Pushed(queue, nextId)
            IN /\ heap' = h1
               /\ queue' = q1
               /\ nextId' = nextId + 1
               /\ IF ~SetItemThrows
                  THEN /\ storage' = SaveQueue(h1, q1)
                       /\ IF online
                          THEN ProcessQueueEntry(h1, q1, online)
                          ELSE UNCHANGED <<isProcessing, operations, idx, pc,
                                           dispatch, dispatchLog>>
                       /\ appended' = IF onlyAppends THEN Append(appended, op)
                                      ELSE <<>>
                       /\ onlyAppends' = onlyAppends
                  ELSE /\ storage' = storage
                       /\ appended' = <<>>
                       /\ onlyAppends' = FALSE
                       /\ UNCHANGED <<isProcessing, operations, idx, pc,
                                      dispatch, dispatchLog>>
    /\ UNCHANGED <<online, storageFull, queueIsArray, tasks, lastError,
                   drained, reported>>

\* --------------------------------------------------------- clearQueue
ClearQueue ==
    /\ UNCHANGED call
    /\ queue' = <<>>
    /\ queueIsArray' = TRUE
    /\ storage' = IF SetItemThrows THEN storage ELSE SaveQueue(heap, <<>>)
    /\ onlyAppends' = FALSE
    /\ appended' = <<>>
    /\ UNCHANGED <<online, storageFull, heap, isProcessing, pc, operations,
                   idx, nextId, dispatch, tasks, lastError, dispatchLog,
                   drained, reported>>

\* ------------------------------------------- processQueue, after await
\* Variant of the offline branch: the replayed entry itself is pushed
\* again, no new one is built.
RequeueSameEntry(h, q, st, op) ==
    /\ nextId <= MaxOps + MaxRequeued
    /\ LET q1 == Pushed(q, op.id)
       IN /\ heap' = h
          /\ queue' = q1
          /\ nextId' = nextId
          /\ storage' = IF SetItemThrows THEN st ELSE SaveQueue(h, q1)
          /\ lastError' = IF SetItemThrows THEN "error" ELSE "offline"

\* The offline branch of createTask / updateTask / deleteTask reached from
\* processOfflineOperation: addOperation of the same type and data, then
\* the "offline" notice; a throwing saveQueue lands in the store's catch.
Requeue(h, q, st, op) ==
    /\ nextId <= MaxOps + MaxRequeued
    /\ LET fresh == NewOperation(op.type, "task", op.data, nextId, nextId)
           h1 == [h EXCEPT ![nextId] = fresh]
           q1 == Pushed(q, nextId)
       IN /\ heap' = h1
          /\ queue' = q1
          /\ nextId' = nextId + 1
          /\ storage' = IF SetItemThrows THEN st ELSE SaveQueue(h1, q1)
          /\ lastError' = IF SetItemThrows THEN "error" ELSE "offline"

\* Variant of the loop: a failed operation ends it (a break in the catch).
HasNextUnlessFailed(id) ==
    idx < Len(operations) /\ dispatch[id].status # "failed"

\* The for-of loop has another operation after the one just handled; no
\* outcome of that one ends the loop.
HasNext(id) == idx < Len(operations)

\* The for-of loop moves on: processOperation of the next operation of the
\* snapshot runs up to the await, or the loop is over and finally resets
\* the flag.  h, q, st are heap, queue and storage as the handling of the
\* operation id left them.
Continue(h, q, st, id) ==
    /\ drained' = drained \cup (QueueIds \cap {id})
    /\ IF HasNext(id)
       THEN LET nxt == operations[idx + 1] IN
            /\ IF Route(h[nxt], online) = "requeued"
               THEN Requeue(h, q, st, h[nxt])
               ELSE /\ heap' = h
                    /\ queue' = q
                    /\ storage' = st
                    /\ UNCHANGED <<nextId, lastError>>
            /\ dispatch' = [dispatch EXCEPT ![nxt] = Started(h[nxt], online)]
            /\ dispatchLog' = Append(dispatchLog, nxt)
            /\ idx' = idx + 1
            /\ UNCHANGED <<isProcessing, pc, operations>>
       ELSE /\ heap' = h
            /\ queue' = q
            /\ storage' = st
            /\ isProcessing' = FALSE
            /\ pc' = "idle"
            /\ operations' = <<>>
            /\ idx' = 0
            /\ UNCHANGED <<nextId, lastError, dispatch, dispatchLog>>

\* Variant of processQueue without the finally: the exception leaves the
\* flag set.
AbortFlagKept(h, q, id) ==
    /\ drained' = drained \cup (QueueIds \cap {id})
    /\ heap' = h
    /\ queue' = q
    /\ storage' = storage
    /\ isProcessing' = isProcessing
    /\ pc' = "idle"
    /\ operations' = <<>>
    /\ idx' = 0
    /\ UNCHANGED <<nextId, lastError, dispatch, dispatchLog>>

\* saveQueue threw inside the catch block: the exception leaves the loop,
\* finally resets the flag and the promise of processQueue rejects.
Abort(h, q, id) ==
    /\ drained' = drained \cup (QueueIds \cap {id})
    /\ heap' = h
    /\ queue' = q
    /\ storage' = storage
    /\ isProcessing' = FALSE
    /\ pc' = "idle"
    /\ operations' = <<>>
    /\ idx' = 0
    /\ UNCHANGED <<nextId, lastError, dispatch, dispatchLog>>

\* The catch block: retryCount++ on the snapshot's object, removal at the
\* threshold, saveQueue again.
CatchBlock(q, id) ==
    LET h1 == [heap EXCEPT ![id].retryCount = @ + 1]
        q1 == IF h1[id].retryCount >= DeadLetterThreshold
              THEN FilterOut(h1, q, id) ELSE q
    IN IF SetItemThrows THEN Abort(h1, q1, id)
       ELSE Continue(h1, q1, SaveQueue(h1, q1), id)

\* Resumption of processQueue after `await this.processOperation(operation)`:
\* processOperation only dispatches the event, so its promise is fulfilled
\* whatever the store does with the operation.  The operation is filtered
\* out of this.queue and saveQueue runs; if setItem throws, the catch block
\* runs.
DrainStep ==
    /\ UNCHANGED call
    /\ pc = "awaiting"
    /\ LET id == operations[idx]
           q1 == FilterOut(heap, queue, heap[id].id)
       IN IF SetItemThrows THEN CatchBlock(q1, id)
          ELSE Continue(heap, q1, SaveQueue(heap, q1), id)
    /\ onlyAppends' = FALSE
    /\ appended' = <<>>
    /\ UNCHANGED <<online, storageFull, queueIsArray, tasks, reported>>

\* ------------------------------------------------------------ backend
\* The promise of withRetry is settled; its loop variable is gone.
Settled(outcome) == [status |-> outcome, attempt |-> 0, delay |-> 0]

\* withRetry: the attempt with index maxRetries is the last one.
Exhausted(attempt) == LastAttempt(attempt, DEFAULT_RETRY_COUNT)

\* The backend call of a replayed task operation succeeds: withRetry
\* returns and the store updates the live list.
BackendSuccess(id) ==
    /\ UNCHANGED call
    /\ dispatch[id].status = "inflight"
    /\ dispatch' = [dispatch EXCEPT ![id] = Settled("applied")]
    /\ tasks' = ApplyToTasks(tasks, heap[id])
    /\ UNCHANGED <<online, storage, storageFull, heap, queue, queueIsArray, isProcessing, pc,
                   operations, idx, nextId, lastError, dispatchLog, drained,
                   reported, appended, onlyAppends>>

\* Variant of the store's mutations without their catch: what withRetry
\* throws rejects the promise handed to the replayer and nothing is
\* recorded.
BackendFailureUncaught(id) ==
    /\ UNCHANGED call
    /\ dispatch[id].status = "inflight"
    /\ IF Exhausted(dispatch[id].attempt)
       THEN dispatch' = [dispatch EXCEPT ![id] = Settled("rejected")]
       ELSE dispatch' = [dispatch EXCEPT ![id].attempt = @ + 1,
                                         ![id].delay = Doubled(@)]
    /\ UNCHANGED <<online, storage, storageFull, heap, queue, queueIsArray,
                   isProcessing, pc, operations, idx, nextId, tasks,
                   lastError, reported, dispatchLog, drained, appended,
                   onlyAppends>>

\* The backend call fails: withRetry waits and invokes it again, or, after
\* the last attempt, throws into the catch of the store's mutation, which
\* writes lastError.
BackendFailure(id) ==
    /\ UNCHANGED call
    /\ dispatch[id].status = "inflight"
    /\ IF Exhausted(dispatch[id].attempt)
       THEN /\ dispatch' = [dispatch EXCEPT ![id] = Settled("failed")]
            /\ lastError' = "backend"
            /\ reported' = reported \cup {id}
       ELSE /\ dispatch' = [dispatch EXCEPT ![id].attempt = @ + 1,
                                            ![id].delay = Doubled(@)]
            /\ UNCHANGED <<lastError, reported>>
    /\ UNCHANGED <<online, storage, storageFull, heap, queue, queueIsArray, isProcessing, pc,
                   operations, idx, nextId, tasks, dispatchLog, drained,
                   appended, onlyAppends>>

\* store.clearError
ClearError ==
    /\ UNCHANGED call
    /\ lastError # "none"
    /\ lastError' = "none"
    /\ UNCHANGED <<online, storage, storageFull, heap, queue, queueIsArray, isProcessing, pc,
                   operations, idx, nextId, dispatch, tasks, dispatchLog,
                   drained, reported, appended, onlyAppends>>

\* ------------------------------------------------------------ restart
\* Variant of the constructor: it calls processQueue after loadQueue.
RestartDraining ==
    /\ call' = NoCall
    /\ LET loaded == LoadQueue(storage)
           At(i) == CHOOSE j \in 1..Len(loaded) : loaded[j].id = i
       IN /\ heap' = [i \in Ids |->
                        IF \E j \in 1..Len(loaded) : loaded[j].id = i
                        THEN loaded[At(i)] ELSE NoOp]
          /\ queue' = [j \in 1..Len(loaded) |-> loaded[j].id]
          /\ appended' = IF LoadIsArray(storage) THEN loaded ELSE <<>>
    /\ queueIsArray' = LoadIsArray(storage)
    /\ onlyAppends' = LoadIsArray(storage)
    /\ LET loaded == LoadQueue(storage)
           q == [j \in 1..Len(loaded) |-> loaded[j].id]
       IN IF online /\ LoadIsArray(storage) /\ Len(q) > 0
          THEN /\ isProcessing' = TRUE
               /\ pc' = "awaiting"
               /\ operations' = q
               /\ idx' = 1
               /\ dispatch' = [[i \in Ids |-> NotDispatched] EXCEPT
                                ![q[1]] = Started(loaded[1], online)]
               /\ dispatchLog' = <<q[1]>>
          ELSE /\ isProcessing' = FALSE
               /\ pc' = "idle"
               /\ operations' = <<>>
               /\ idx' = 0
               /\ dispatch' = [i \in Ids |-> NotDispatched]
               /\ dispatchLog' = <<>>
    /\ tasks' = <<>>
    /\ lastError' = "none"
    /\ drained' = {}
    /\ reported' = {}
    /\ UNCHANGED <<online, storage, storageFull, nextId>>

\* The page is closed or crashes and is loaded again: a new OfflineQueue
\* is constructed over the same localStorage, a new store is created, the
\* suspended pass and the pending requests of the old page are gone.
Restart ==
    /\ call' = NoCall
    /\ LET loaded == LoadQueue(storage)
           At(i) == CHOOSE j \in 1..Len(loaded) : loaded[j].id = i
       IN /\ heap' = [i \in Ids |->
                        IF \E j \in 1..Len(loaded) : loaded[j].id = i
                        THEN loaded[At(i)] ELSE NoOp]
          /\ queue' = [j \in 1..Len(loaded) |-> loaded[j].id]
          /\ appended' = IF LoadIsArray(storage) THEN loaded ELSE <<>>
    /\ queueIsArray' = LoadIsArray(storage)
    /\ onlyAppends' = LoadIsArray(storage)
    /\ isProcessing' = FALSE
    /\ pc' = "idle"
    /\ operations' = <<>>
    /\ idx' = 0
    /\ dispatch' = [i \in Ids |-> NotDispatched]
    /\ tasks' = <<>>
    /\ lastError' = "none"
    /\ dispatchLog' = <<>>
    /\ drained' = {}
    /\ reported' = {}
    /\ UNCHANGED <<online, storage, storageFull, nextId>>

\* --------------------------------------------------------------- Next
\* Under Spec the replay draws its fresh ids from the MaxOps ids of the
\* callers; the specifications without the backend leave it MaxRequeued more.
DrainStepWithinOps == DrainStep /\ nextId' <= MaxOps + 1

Next ==
    \/ \E k \in Kinds, d \in Payloads : AddOperation(k[1], k[2], d)
    \/ ProcessQueue
    \/ OnlineEvent
    \/ GoOffline
    \/ DrainStepWithinOps
    \/ ClearQueue
    \/ \E id \in Ids : BackendSuccess(id)
    \/ \E id \in Ids : BackendFailure(id)
    \/ ClearError
    \/ Restart

Spec == Init /\ [][Next]_vars

\* ------------------------------------------------- storage quota
\* Other pages of the origin use up, or free, the localStorage quota.
FillStorage ==
    /\ UNCHANGED call
    /\ ~storageFull
    /\ storageFull' = TRUE
    /\ UNCHANGED <<online, storage, heap, queue, queueIsArray, isProcessing,
                   pc, operations, idx, nextId, dispatch, tasks, lastError,
                   dispatchLog, drained, reported, appended, onlyAppends>>

FreeStorage ==
    /\ UNCHANGED call
    /\ storageFull
    /\ storageFull' = FALSE
    /\ UNCHANGED <<online, storage, heap, queue, queueIsArray, isProcessing,
                   pc, operations, idx, nextId, dispatch, tasks, lastError,
                   dispatchLog, drained, reported, appended, onlyAppends>>

\* The queue under a quota that comes and goes.  The backend's answers
\* are left out: no handler of the queue reads what they change.
NextQuota ==
    \/ \E k \in Kinds, d \in Payloads : AddOperation(k[1], k[2], d)
    \/ ProcessQueue
    \/ OnlineEvent
    \/ GoOffline
    \/ DrainStep
    \/ ClearQueue
    \/ Restart
    \/ FillStorage
    \/ FreeStorage

SpecQuota == Init /\ [][NextQuota]_vars

\* ======================================================================
\* withRetry called outside the replay
\* ======================================================================
\* Everything but the activation, the live list and lastError.
queueVars == <<online, storage, storageFull, heap, queue, queueIsArray,
               isProcessing, pc, operations, idx, nextId, dispatch,
               dispatchLog, drained, reported, appended, onlyAppends>>

\* A caller other than the store's mutations calls withRetry(operation,
\* o) once the call before it is settled.
WithRetry(o) ==
    /\ call.status \in {"none", "returned", "threw"}
    /\ call' = Invoked("none", "none", o)
    /\ UNCHANGED <<queueVars, tasks, lastError>>

\* operation() resolves: withRetry returns its result, and a store
\* mutation that made the call updates the live list.
OperationResolves ==
    /\ call.status = "invoked"
    /\ call' = [call EXCEPT !.status = "returned"]
    /\ tasks' = IF call.type = "none" THEN tasks
                ELSE ApplyToTasks(tasks, [type |-> call.type, data |-> call.data])
    /\ UNCHANGED <<queueVars, lastError>>

\* withRetry throws lastError; the catch of a store mutation that made the
\* call writes it to the store's lastError.
Thrown(c) == [c EXCEPT !.status = "threw"]
CaughtByStore(c) == IF c.type = "none" THEN lastError ELSE "backend"

\* The catch of the loop: lastError is assigned what was caught.
Assigned(c, e) == [c EXCEPT !.lastError = Caught(e), !.thrown = e]

\* operation() rejects, with Math.random() * 200 = jitter: lastError is
\* assigned, the last attempt throws it, any other sets the timeout.
OperationRejects(jitter) ==
    /\ call.status = "invoked"
    /\ \E e \in ThrownValues :
          IF LastAttempt(call.attempt, call.maxRetries)
          THEN /\ call' = Thrown(Assigned(call, e))
               /\ lastError' = CaughtByStore(call)
          ELSE /\ call' = [Assigned(call, e) EXCEPT
                             !.status = "waiting",
                             !.waits = Append(@, Backoff(call.delay, jitter,
                                                         call.maxDelay))]
               /\ UNCHANGED lastError
    /\ UNCHANGED <<queueVars, tasks>>

\* The timeout fires: delay *= 2, attempt++, the loop test, and
\* operation() is invoked again (or the throw after the loop).
TimerFires ==
    /\ call.status = "waiting"
    /\ IF call.attempt + 1 <= call.maxRetries
       THEN /\ call' = [call EXCEPT !.status = "invoked",
                                     !.attempt = @ + 1,
                                     !.delay = Doubled(@),
                                     !.invocations = @ + 1]
            /\ UNCHANGED lastError
       ELSE /\ call' = Thrown(call)
            /\ lastError' = CaughtByStore(call)
    /\ UNCHANGED <<queueVars, tasks>>

\* withRetry on its own, under every option and outcome.
NextRetry ==
    \/ \E o \in RetryOptions : WithRetry(o)
    \/ OperationResolves
    \/ \E j \in Jitters : OperationRejects(j)
    \/ TimerFires

SpecRetry == Init /\ [][NextRetry]_vars

\* ======================================================================
\* The store's task mutations, called by the application
\* ======================================================================
\* QueuedOperation.type of createTask, updateTask and deleteTask.
Types == {"create", "update", "delete"}

\* if (!navigator.onLine)
TakesOfflineBranch(on) == ~on

\* The offline branch of a mutation called by the application:
\* addOperation, then the "You are currently offline" notice.  A push on a
\* non-array or a setItem that throws lands in the catch of the mutation,
\* which writes the error it caught to lastError.  addOperation tests
\* navigator.onLine itself, finds it false and calls nothing.
OfflineBranch(type, data) ==
    /\ nextId <= MaxOps
    /\ IF ~queueIsArray
       THEN /\ lastError' = "error"
            /\ onlyAppends' = FALSE
            /\ appended' = <<>>
            /\ UNCHANGED <<storage, heap, queue, nextId>>
       ELSE LET op == NewOperation(type, "task", data, nextId, nextId)
                h1 == [heap EXCEPT ![nextId] = op]
                q1 == Pushed(queue, nextId)
            IN /\ heap' = h1
               /\ queue' = q1
               /\ nextId' = nextId + 1
               /\ IF SetItemThrows
                  THEN /\ storage' = storage
                       /\ lastError' = "error"
                       /\ onlyAppends' = FALSE
                       /\ appended' = <<>>
                  ELSE /\ storage' = SaveQueue(h1, q1)
                       /\ lastError' = "offline"
                       /\ onlyAppends' = onlyAppends
                       /\ appended' = IF onlyAppends THEN Append(appended, op)
                                      ELSE <<>>
    /\ UNCHANGED <<passVars, call>>

\* The online branch: withRetry is called with the backend request, under
\* the default options, and the mutation is suspended at its await.  One
\* such call is followed at a time.
OnlineBranch(type, data) ==
    /\ call.status \in {"none", "returned", "threw"}
    /\ type = "create" => Len(tasks) < MaxTasks
    /\ call' = Invoked(type, data, DefaultOptions)
    /\ UNCHANGED <<storage, heap, queue, nextId, passVars, lastError,
                   appended, onlyAppends>>

\* createTask / updateTask / deleteTask up to the return or the first
\* await.
StoreMutation(type, data) ==
    /\ IF TakesOfflineBranch(online) THEN OfflineBranch(type, data)
       ELSE OnlineBranch(type, data)
    /\ UNCHANGED <<online, storageFull, queueIsArray, tasks, drained,
                   reported>>

\* The application mutating tasks while connectivity comes and goes; the
\* mutations are the only callers of addOperation and of withRetry.  The
\* backend requests made online are answered at the first invocation
\* (SpecRetry follows the others), the answers to replayed operations are
\* left out: no mutation reads what they change.
NextStore ==
    \/ \E t \in Types, d \in Payloads : StoreMutation(t, d)
    \/ OperationResolves
    \/ OnlineEvent
    \/ GoOffline
    \/ DrainStep

SpecStore == Init /\ [][NextStore]_vars

\* ======================================================================
\* Replay of what was queued offline
\* ======================================================================
\* createTask or updateTask called while the browser is offline.
MutationOffline(type, data) == ~online /\ StoreMutation(type, data)

\* A backend call of the replay fails and withRetry has attempts left.
TransientFailure(id) ==
    /\ ~Exhausted(dispatch[id].attempt)
    /\ BackendFailure(id)

\* Tasks are created and updated while offline, connectivity returns and
\* stays, and the backend answers every replayed call with success, at
\* once or after failures withRetry absorbs.
NextReplay ==
    \/ \E t \in {"create", "update"}, d \in Payloads : MutationOffline(t, d)
    \/ OnlineEvent
    \/ DrainStep
    \/ \E id \in Ids : BackendSuccess(id)
    \/ \E id \in Ids : TransientFailure(id)

\* The 'online' event is delivered, the continuation of processQueue after
\* its await is run by the event loop, and the backend answers.
SpecReplay ==
    /\ Init
    /\ [][NextReplay]_vars
    /\ WF_vars(OnlineEvent)
    /\ WF_vars(DrainStep)
    /\ \A id \in Ids : WF_vars(BackendSuccess(id))

\* ======================================================================
\* Steps, told apart by what they change
\* ======================================================================
\* A step of processQueue resuming after its await.
IsDrainStep ==
    /\ pc = "awaiting"
    /\ \/ pc' = "awaiting" /\ idx' = idx + 1
       \/ pc' = "idle" /\ dispatch' = dispatch

\* A call of addOperation that returns: push and setItem do not throw.
AddOperationReturns ==
    /\ queueIsArray
    /\ ~SetItemThrows
    /\ nextId' = nextId + 1
    /\ ~IsDrainStep

\* A restart that kills a suspended pass: every dispatch record is reset.
IsRestartOfPass ==
    /\ pc = "awaiting"
    /\ pc' = "idle"
    /\ dispatch' = [i \in Ids |-> NotDispatched]

PersistedOps == LoadQueue(storage)

\* A call of addOperation that throws to its caller: the operation is
\* pushed and the setItem of saveQueue throws; nothing catches it.
AddOperationThrows ==
    /\ queueIsArray
    /\ SetItemThrows
    /\ \E k \in Kinds, d \in Payloads : AddOperation(k[1], k[2], d)

\* The promise of processQueue rejects: the setItem of saveQueue throws in
\* the try block and again in the catch block, and the function has no
\* outer catch, only the finally.
ProcessQueueRejects ==
    /\ SetItemThrows
    /\ DrainStep

\* ======================================================================
\* Claims
\* ======================================================================

\* C1: when addOperation returns, the list stored under 'offline_queue'
\* already holds the new operation: a loadQueue over the storage as that
\* call leaves it yields the operation, with the fields it has in memory.
C1_DurabilityPrecedesReturn ==
    [][AddOperationReturns =>
         \E i \in 1..Len(LoadQueue(storage')) :
            LoadQueue(storage')[i] = heap'[nextId]]_vars

\* An addOperation call has returned while online and started a pass, and
\* the operation it added is what a restart would load last.
C1_Witness ==
    /\ onlyAppends
    /\ appended # <<>>
    /\ pc = "awaiting"
    /\ PersistedOps # <<>>
    /\ PersistedOps[Len(PersistedOps)] = appended[Len(appended)]

\* C2: after any sequence of addOperation calls and nothing else, a restart
\* loads exactly the operations of those calls, in call order, each with
\* the id, type, entity, data, timestamp and retryCount the call gave it.
C2_RestartRoundTrip ==
    onlyAppends => LoadQueue(storage) = appended

\* Two operations were added, and the page was restarted: the browser is
\* online and yet no pass runs, which only a fresh construction leaves
\* behind; the queue in memory is the two operations, in order.
C2_Witness ==
    /\ onlyAppends
    /\ Len(appended) = 2
    /\ online
    /\ pc = "idle"
    /\ queueIsArray
    /\ Deref(heap, queue) = appended

\* C3: an operation leaves the queue only once its backend mutation has
\* been applied or its retryCount has reached 3; no operation has been
\* removed by the drain while its dispatch is unsettled or was never made.
C3_RemovedOnlyWhenSettled ==
    \A id \in drained :
       \/ dispatch[id].status = "applied"
       \/ heap[id].retryCount >= DeadLetterThreshold

\* C4: within a pass, the dispatch of an operation begins only after the
\* backend mutation of every operation dispatched before it has settled;
\* two backend calls of one pass are never in flight together.
C4_SequentialReplay ==
    \A i, j \in 1..Len(dispatchLog) :
       i < j => dispatch[dispatchLog[i]].status # "inflight"

\* C5: at most one pass is active.  While isProcessing is set, a step that
\* is neither the resumption of the running pass nor a restart of the page
\* (so: an 'online' event, an addOperation call, an explicit processQueue
\* call, and whatever else happens) leaves the flag, the snapshot, the loop
\* position and the list of dispatched operations as they are; an 'online'
\* event changes neither queue nor storage, and addOperation only appends
\* its own operation.
C5_SinglePass ==
    [][(isProcessing /\ ~IsDrainStep /\ ~IsRestartOfPass) =>
         /\ isProcessing'
         /\ pc' = pc
         /\ operations' = operations
         /\ idx' = idx
         /\ dispatchLog' = dispatchLog
         /\ (online' /\ ~online) => (queue' = queue /\ storage' = storage)
         /\ AddOperationReturns => queue' = Append(queue, nextId)]_vars

\* A pass over one operation is suspended at its first await, the browser
\* is online, and a second operation has been added meanwhile: the
\* processQueue call of that addOperation (or of the 'online' event that
\* followed it) arrived during the pass and left the snapshot alone.
C5_Witness ==
    /\ isProcessing
    /\ online
    /\ idx = 1
    /\ Len(operations) = 1
    /\ Len(queue) = 2
    /\ queue[1] = operations[1]

\* C6: an operation whose dispatch fails has its retryCount incremented by
\* the drain attempt that failed and stays queued until the count reaches
\* 3, and only then is it removed: an operation whose backend mutation
\* has finally failed is either still queued with a count of at least 1
\* or carries a count of at least 3.
C6_FailedDispatchCounted ==
    \A id \in Ids :
       dispatch[id].status = "failed" =>
          \/ id \in QueueIds /\ heap[id].retryCount >= 1
          \/ heap[id].retryCount >= DeadLetterThreshold

\* C7: no operation is dropped silently: every operation the drain has
\* removed whose backend mutation was not applied (it finally failed, or
\* no backend call was made for it at all) has been reported on lastError.
C7_DropsAreReported ==
    \A id \in drained :
       dispatch[id].status \in {"failed", "ignored"} => id \in reported

C10_CorruptionNotFatal ==
    storage.kind # "array" => (queueIsArray /\ queue = <<>>)

\* C11: the queue in memory is never ahead of durable storage: in every
\* state between two handlers (after addOperation or clearQueue, at every
\* await of processQueue and after its exit) the list a loadQueue would
\* read from 'offline_queue' is the list this.queue holds, operation by
\* operation, retryCount included.
C11_MemoryNeverAheadOfStorage ==
    queueIsArray => LoadQueue(storage) = Deref(heap, queue)

\* C12 as claimed: withRetry gives up after maxRetries failed attempts: it
\* never invokes the action more than maxRetries times, and when it
\* propagates the failure the action has been invoked exactly maxRetries
\* times (3 with the default configuration).  Stated for maxRetries >= 1,
\* where an action invoked maxRetries times is invoked at all.
C12_GivesUpAfterMaxRetries ==
    call.maxRetries >= 1 =>
       /\ call.invocations <= call.maxRetries
       /\ call.status = "threw" => call.invocations = call.maxRetries

\* C12 as amended: maxRetries counts the retries, the first attempt comes
\* on top: withRetry never invokes the action more than maxRetries + 1
\* times, it waits once between two invocations, and when it propagates the
\* failure the action has been invoked, and has failed, exactly
\* maxRetries + 1 times (4 with the default configuration).
C12_GivesUpAfterMaxRetriesPlusOne ==
    /\ call.invocations <= call.maxRetries + 1
    /\ call.status \in {"invoked", "returned", "threw"} =>
          Len(call.waits) = call.invocations - 1
    /\ call.status = "threw" => call.invocations = call.maxRetries + 1

\* A call under the default configuration has thrown after four failed
\* invocations and three waits.
C12_Witness ==
    /\ call.status = "threw"
    /\ call.maxRetries = DEFAULT_RETRY_COUNT
    /\ call.invocations = DEFAULT_RETRY_COUNT + 1
    /\ Len(call.waits) = DEFAULT_RETRY_COUNT

\* C13: the wait withRetry inserts after the failed attempt with index k
\* (k = 0, 1, 2, ...) is min(initialDelay * 2^k + j, maxDelay) for a
\* jitter j with 0 <= j < 200 ms; no wait exceeds maxDelay, and the base
\* the loop carries into attempt k is initialDelay doubled k times.
C13_BackoffCurve ==
    /\ \A k \in 1..Len(call.waits) :
          /\ \E j \in 0..(JitterRange - 1) :
                call.waits[k] =
                   Min(call.initialDelay * 2^(k - 1) + j, call.maxDelay)
          /\ call.waits[k] <= call.maxDelay
    /\ call.status # "none" => call.delay = call.initialDelay * 2^call.attempt

\* Three waits have been set, the first below the cap with a jitter that
\* is not zero, the last one cut to maxDelay.
C13_Witness ==
    /\ Len(call.waits) = 3
    /\ call.waits[1] > call.initialDelay
    /\ call.waits[1] < call.maxDelay
    /\ call.waits[3] = call.maxDelay
    /\ call.initialDelay * 4 > call.maxDelay

\* C14: under the default maxRetries = 3, a replayed dispatch whose backend
\* call fails twice and then succeeds: after each of the two failures the
\* call is still in flight, one invocation further, having waited on the
\* base initialDelay, then 2 * initialDelay; the success of the third
\* invocation applies the mutation to the live list and settles the
\* dispatch as applied; an applied dispatch is never invoked again; and
\* once the pass is over an applied operation is not in the queue.
C14_FailsTwiceThenSucceeds ==
    [][\A id \in Ids :
         /\ (dispatch[id].attempt < 2 /\ dispatch' # dispatch
                                       /\ BackendFailure(id)) =>
               /\ dispatch'[id].status = "inflight"
               /\ dispatch'[id].attempt = dispatch[id].attempt + 1
               /\ dispatch[id].delay =
                     DEFAULT_RETRY_DELAY * (dispatch[id].attempt + 1)
         /\ (dispatch[id].attempt = 2 /\ BackendSuccess(id)) =>
               /\ dispatch'[id].status = "applied"
               /\ tasks' = ApplyToTasks(tasks, heap[id])
         /\ dispatch[id].status = "applied" =>
               dispatch'[id].status \in {"applied", "none"}
         /\ (dispatch'[id].status = "applied" /\ pc' = "idle") =>
               id \notin QueueIds']_vars

\* The backend call of a replayed operation has failed twice and waited on
\* 1000 and 2000 ms; its third invocation is in flight, the pass that
\* dispatched it is over and has taken it out of the queue.
C14_Witness ==
    \E id \in Ids :
       /\ dispatch[id].status = "inflight"
       /\ dispatch[id].attempt = 2
       /\ dispatch[id].delay = 4 * DEFAULT_RETRY_DELAY
       /\ pc = "idle"
       /\ id \notin QueueIds
       /\ heap[id].type = "create"
       /\ tasks = <<>>

\* C15: every transition from offline to online makes one processQueue
\* call: if the queue is not empty and no pass runs, that step starts one
\* pass over the whole queue and dispatches its first operation, else it
\* starts nothing; it changes neither queue nor storage.  Nothing else
\* the browser does to the queue starts a pass: going offline leaves the
\* pass variables alone, and a pass only ever starts while online, in an
\* 'online' event, an addOperation call or an explicit processQueue call.
C15_OnlineEventDrainsOnce ==
    [][/\ (~online /\ online') =>
             /\ IF queueIsArray /\ ~isProcessing /\ queue # <<>>
                THEN /\ isProcessing'
                     /\ pc' = "awaiting"
                     /\ operations' = queue
                     /\ idx' = 1
                     /\ dispatchLog' = <<queue[1]>>
                ELSE UNCHANGED passVars
             /\ queue' = queue
             /\ storage' = storage
       /\ (online /\ ~online') => UNCHANGED passVars
       /\ (~isProcessing /\ isProcessing') =>
             /\ online'
             /\ \/ OnlineEvent
                \/ ProcessQueue
                \/ \E k \in Kinds, d \in Payloads : AddOperation(k[1], k[2], d)
      ]_vars

\* Two operations were queued while offline and the browser is back
\* online: a pass over both is suspended at its first await, no backend
\* call has been answered yet.
C15_Witness ==
    /\ online
    /\ pc = "awaiting"
    /\ idx = 1
    /\ Len(operations) = 2
    /\ queue = operations
    /\ dispatchLog = <<operations[1]>>
    /\ onlyAppends
    /\ Len(appended) = 2

\* C16: path selection by connectivity.  A createTask, updateTask or
\* deleteTask call made while offline appends exactly one operation, the
\* one of the call, to the queue, makes no backend call, leaves the live
\* list alone and returns with the "offline, will sync" notice in
\* lastError; the same call made while online calls the backend and
\* leaves queue and storage alone.
C16_PathSelection ==
    [][\A t \in Types, d \in Payloads :
         StoreMutation(t, d) =>
            IF ~online
            THEN /\ queue' = Append(queue, nextId)
                 /\ heap'[nextId] = NewOperation(t, "task", d, nextId, nextId)
                 /\ call' = call
                 /\ dispatch' = dispatch
                 /\ tasks' = tasks
                 /\ lastError' = "offline"
            ELSE /\ call'.status = "invoked"
                 /\ call'.type = t
                 /\ queue' = queue
                 /\ storage' = storage]_vars

\* A create operation for the task "X" is queued and the browser is
\* offline.
CreateXQueuedOffline ==
    /\ ~online
    /\ \E id \in QueueIds :
          /\ heap[id].type = "create"
          /\ heap[id].entity = "task"
          /\ heap[id].data = "X"

\* The live list holds a task named "X".
TaskXLive == \E i \in 1..Len(tasks) : tasks[i].name = "X"

\* C17: end-to-end replay: once a create operation for the task "X" has
\* been queued while offline, and connectivity returns and the backend
\* create succeeds, the system eventually reaches a state in which the
\* queue is empty and the live task list holds a task named "X".
C17_EndToEndReplay ==
    CreateXQueuedOffline ~> (queue = <<>> /\ TaskXLive)

\* The replay is over: the browser is online, no pass runs, the queue and
\* the stored list are empty, the operation with id 1 was a create that
\* the pass drained and the backend applied, and "X" is in the live list.
C17_Witness ==
    /\ online
    /\ pc = "idle"
    /\ queue = <<>>
    /\ LoadQueue(storage) = <<>>
    /\ 1 \in drained
    /\ heap[1].type = "create"
    /\ dispatch[1].status = "applied"
    /\ TaskXLive

\* C18: failures never escape to the call site: whatever the persistence
\* write does, no addOperation call throws to its caller and no
\* processQueue call rejects.
C18_FailuresNeverEscape ==
    [][~AddOperationThrows /\ ~ProcessQueueRejects]_vars

\* C19: reconciliation routing is total: whatever the entity (project,
\* task, note, resource, reminder) and the type (create, update, delete)
\* of an operation handed to processOfflineOperation, the store takes it
\* to the matching mutation; no operation a pass has dispatched is
\* ignored.
C19_RoutingTotal ==
    \A id \in Ids : dispatch[id].status # "ignored"

\* C20: no two operations of the queue share an id, neither in this.queue
\* nor in the list stored under 'offline_queue', whatever addOperation,
\* processQueue, clearQueue, the replay and restarts have done.
C20_IdsUnique ==
    /\ \A i, j \in 1..Len(queue) :
          i # j => heap[queue[i]].id # heap[queue[j]].id
    /\ \A i, j \in 1..Len(PersistedOps) :
          i # j => PersistedOps[i].id # PersistedOps[j].id

\* Two operations are queued and stored after a restart of the page that
\* had queued them: nothing was dispatched since, though the browser is
\* online.
C20_Witness ==
    /\ Len(queue) = 2
    /\ PersistedOps = Deref(heap, queue)
    /\ online
    /\ pc = "idle"
    /\ dispatch = [i \in Ids |-> NotDispatched]

\* C21: the removal of the operation a pass has just handled deletes the
\* entry with that id and nothing else: every other queued operation stays,
\* unchanged and in the same order (an operation the same step re-enqueues
\* for the next dispatch comes after them), at most one entry goes, and
\* whenever the pass goes on to its next operation the list it left is
\* the list stored under 'offline_queue'.
C21_RemoveExactlyOne ==
    [][(pc = "awaiting" /\ DrainStep) =>
         LET id == operations[idx]
             rest == SelectSeq(queue, LAMBDA r : r # id)
         IN /\ Len(queue) - Len(rest) <= 1
            /\ queue' = IF nextId' = nextId THEN rest
                         ELSE Append(rest, nextId)
            /\ \A r \in QueueIds \ {id} : heap'[r] = heap[r]
            /\ pc' = "awaiting" => LoadQueue(storage') = Deref(heap', queue')
      ]_vars

\* The pass has removed its first operation and stored the rest, the
\* second operation of the snapshot, which it has gone on to.
C21_Witness ==
    /\ pc = "awaiting"
    /\ idx = 2
    /\ queue = <<operations[2]>>
    /\ operations[1] \in drained
    /\ PersistedOps = Deref(heap, queue)

\* ----------------------------------------------------------------------
\* C22: clearQueue leaves the queue empty in memory and in storage, so that
\* getQueuedOperations returns nothing and a restart loads nothing, and the
\* steps of a pass that was in progress when it was called keep it so.
C22_ClearedStaysCleared ==
    [][(\/ ClearQueue
        \/ pc = "awaiting" /\ queue = <<>> /\ PersistedOps = <<>> /\ DrainStep)
         => (queue' = <<>> /\ LoadQueue(storage') = <<>>)]_vars

\* ----------------------------------------------------------------------
\* C23: an operation whose dispatch has failed and whose retryCount is
\* below 3 is still queued, and the record persisted for it carries the
\* incremented retryCount, so that a later pass finds and retries it.
C23_FailedStaysForRetry ==
    \A id \in Ids :
       (dispatch[id].status = "failed"
          /\ heap[id].retryCount < DeadLetterThreshold) =>
          /\ id \in QueueIds
          /\ \E i \in 1..Len(PersistedOps) :
                /\ PersistedOps[i].id = heap[id].id
                /\ PersistedOps[i].retryCount >= 1

\* ----------------------------------------------------------------------
\* C24: an operation added while a pass is suspended is not in the pass's
\* snapshot and is not dispatched by that pass; the steps of the pass do
\* not drop or overwrite it, it stays behind the surviving operations of
\* the snapshot, and what was persisted of it stays persisted.  The call
\* that adds it leaves the snapshot and the dispatches of the pass alone and
\* persists the whole list.
C24_AddedDuringPassSurvives ==
    [][/\ (pc = "awaiting" /\ DrainStep) =>
            LET snapshot == {operations[i] : i \in 1..Len(operations)}
                late == SelectSeq(queue, LAMBDA r : r \notin snapshot)
                lateAfter == SelectSeq(queue', LAMBDA r : r \notin snapshot)
                Stored(st, r) == \E i \in 1..Len(LoadQueue(st)) :
                                    LoadQueue(st)[i] = heap[r]
            IN /\ \A i \in 1..Len(dispatchLog') : dispatchLog'[i] \in snapshot
               /\ lateAfter = IF nextId' = nextId THEN late
                              ELSE Append(late, nextId)
               /\ \A i, j \in 1..Len(queue') :
                     (queue'[i] \in snapshot /\ queue'[j] \notin snapshot)
                        => i < j
               /\ \A i \in 1..Len(late) :
                     /\ heap'[late[i]] = heap[late[i]]
                     /\ Stored(storage, late[i]) => Stored(storage', late[i])
       /\ (pc = "awaiting" /\ AddOperationReturns) =>
            /\ queue' = Append(queue, nextId)
            /\ operations' = operations
            /\ dispatchLog' = dispatchLog
            /\ LoadQueue(storage') = Deref(heap', queue')
      ]_vars

\* A pass over one operation has ended; the operation added while it was
\* suspended was not dispatched and is queued and stored.
C24_Witness ==
    /\ pc = "idle"
    /\ dispatchLog = <<1>>
    /\ 1 \in drained
    /\ queue = <<2>>
    /\ dispatch[2].status = "none"
    /\ PersistedOps = Deref(heap, queue)

\* ----------------------------------------------------------------------
\* C25: the drain counts an operation as failed only after withRetry has
\* used up its attempts on the operation's backend call: a step that
\* increments the retryCount of an operation finds the operation's dispatch
\* finally failed.
C25_CountedOnlyWhenExhausted ==
    [][\A id \in Ids :
          heap'[id].retryCount > heap[id].retryCount
             => dispatch[id].status = "failed"]_vars

\* ----------------------------------------------------------------------
\* C26: when withRetry gives up, what it throws is the very value the last
\* invocation of operation() rejected with, whether or not that value is
\* an Error instance.
C26_PropagatesLastThrown ==
    call.status = "threw" => call.lastError = call.thrown

\* ----------------------------------------------------------------------
\* C27: isProcessing is set exactly while a pass is suspended in its loop;
\* every way out of processQueue (the loop running out, saveQueue throwing
\* out of the catch block, the spread of a non-array throwing) leaves it
\* reset, and a call of processQueue made online on a non-empty queue when
\* no pass is running starts a pass over the whole queue.
C27_GuardNeverStuck ==
    [][/\ isProcessing' <=> (pc' = "awaiting")
       /\ (pc = "idle" /\ online /\ queueIsArray /\ queue # <<>>
             /\ ProcessQueue)
            => (isProcessing' /\ pc' = "awaiting" /\ operations' = queue)
      ]_vars

\* A pass is running after an earlier pass was left by an exception: the
\* operation that pass was handling had its retryCount incremented.
C27_Witness ==
    /\ pc = "awaiting"
    /\ isProcessing
    /\ \E id \in drained :
          /\ heap[id].retryCount >= 1
          /\ \A i \in 1..Len(operations) : operations[i] # id

\* ----------------------------------------------------------------------
\* C28: processOfflineOperation never rejects.  When the backend call of a
\* replayed task operation has failed on the last attempt of withRetry,
\* the store's mutation catches the failure: the call is settled as failed,
\* not rejected to the replayer, lastError records it and the live task
\* list is what it was.
C28_ReplayNeverRejects ==
    [][\A id \in Ids :
          (dispatch[id].status = "inflight"
             /\ dispatch'[id].status \in {"failed", "rejected"})
            => /\ dispatch'[id].status = "failed"
               /\ Exhausted(dispatch[id].attempt)
               /\ lastError' = "backend"
               /\ tasks' = tasks]_vars

\* One replayed creation was applied, the next replayed operation failed
\* for good: the live list still holds the task and lastError is written.
C28_Witness ==
    /\ dispatch[1].status = "applied"
    /\ dispatch[2].status = "failed"
    /\ tasks # <<>>
    /\ lastError = "backend"

\* ----------------------------------------------------------------------
\* C29: a task operation replayed while navigator.onLine is false is put
\* back on the queue: no backend call is made for it, and addOperation
\* appends a new entry with a fresh id, retryCount 0 and the type, entity
\* and data of the replayed one, whatever the retryCount of that one.
C29_OfflineReplayRequeues ==
    [][(pc = "awaiting" /\ pc' = "awaiting" /\ ~online /\ DrainStep) =>
         LET nxt == operations[idx + 1]
             old == heap[nxt]
             new == heap'[nextId]
         IN old.entity = "task" =>
              /\ dispatch'[nxt].status = "requeued"
              /\ nextId' = nextId + 1
              /\ \A i \in 1..Len(queue) : heap[queue[i]].id # new.id
              /\ \A i \in 1..Len(operations) : heap[operations[i]].id # new.id
              /\ queue'[Len(queue')] = nextId
              /\ new.retryCount = 0
              /\ new.type = old.type
              /\ new.entity = old.entity
              /\ new.data = old.data
      ]_vars

\* The second operation of a pass was replayed offline: it is marked as
\* put back and its new entry is the last of the queue.
C29_Witness ==
    /\ pc = "awaiting"
    /\ idx = 2
    /\ ~online
    /\ dispatch[operations[2]].status = "requeued"
    /\ Len(queue) >= 1
    /\ queue[Len(queue)] \notin {operations[1], operations[2]}
    /\ heap[queue[Len(queue)]].type = heap[operations[2]].type
    /\ heap[queue[Len(queue)]].retryCount = 0

\* ----------------------------------------------------------------------
\* C30: constructing the queue starts no pass.  After a page load no pass
\* is running and nothing has been dispatched, online or not, and the
\* loaded operations stay queued and undispatched until an 'online' event
\* or an addOperation call made while online invokes processQueue (or the
\* application calls processQueue itself).
C30_NoDrainAtConstruction ==
    [][/\ Restart =>
            /\ pc' = "idle"
            /\ ~isProcessing'
            /\ \A id \in Ids : dispatch'[id] = NotDispatched
            /\ Deref(heap', queue') = LoadQueue(storage)
       /\ (pc = "idle" /\ pc' = "awaiting") =>
            \/ ~online /\ online'
            \/ online /\ nextId' = nextId + 1
            \/ ProcessQueue
      ]_vars

\* The page was loaded online over two stored operations: both are queued,
\* none is dispatched and no pass is running.
C30_Witness ==
    /\ online
    /\ pc = "idle"
    /\ Len(queue) = 2
    /\ PersistedOps = Deref(heap, queue)
    /\ dispatchLog = <<>>
    /\ drained = {}
    /\ \A id \in Ids : dispatch[id] = NotDispatched

====
